---------------------------- MODULE Spec2Model ----------------------------
(***************************************************************************)
(* Model of packer/plugin/client.go: the plugin subprocess handle          *)
(* (client.Start, client.Kill, client.logStderr, the exit watcher) and the *)
(* registry of managed clients (NewManagedClient, CleanupClients).         *)
(*                                                                         *)
(* Every goroutine of the code is a process of the model with its own      *)
(* program counter; one action is one step between two accesses to shared  *)
(* state (the flags exited/doneLogging, the two bytes.Buffers, the timeout *)
(* channel, cmd.Process, the loop variable of CleanupClients).             *)
(***************************************************************************)
EXTENDS Naturals, Sequences, FiniteSets

(***************************************************************************)
(* Bounds of the model.                                                    *)
(***************************************************************************)
\* number of handles in the registry scenario
NumClients == 2
\* most bytes one subprocess writes on stdout
MaxOutLen == 3
\* most bytes one subprocess writes on stderr
MaxErrLen == 2

Clients == 1..NumClients

\* Bytes a subprocess may write.  "nl" is '\n', "sp" a blank.
OutBytes == {"a", "sp", "nl"}
ErrBytes == {"x", "nl"}

\* The entry the exit watcher prints: "<path>: plugin process exited".
ExitMsg == <<"plugin process exited">>

\* Killer threads: 0 is the host calling Kill itself, i >= 1 is the goroutine
\* CleanupClients starts in its i-th loop iteration.
Killers == 0..NumClients

\* number of calls made on the root stub, each by a thread of its own, so
\* that calls overlap or follow each other in every way
NumCallers == 2

Callers == 1..NumCallers

\* Arguments of the calls: builder names, argument lists of Cli; and what the
\* served environment's Cli may return as its integer result.
Names == {"n1"}
ArgLists == {<<>>, <<"p", "q">>}
CliResults == {0, 1}

VARIABLES
    managedClients, \* the registry (sequence of handles)
    nClients,       \* handles constructed (NewClient / NewManagedClient)
    proc,           \* OS process: "none" (cmd.Process == nil), "running",
                    \*   "exit0", "exit1" (exited by itself), "killed"
    killSig,        \* a SIGKILL has been issued for the process
    outWritten,     \* history: every byte the subprocess wrote on stdout
    errWritten,     \* history: every byte the subprocess wrote on stderr
    stdoutBuf,      \* Start's stdout bytes.Buffer: [unread, dirty]
    stderrBuf,      \* Start's stderr bytes.Buffer: [unread, dirty]
    exited,         \* client.exited
    doneLogging,    \* client.doneLogging
    log,            \* the log sink: entries printed for the handle, in order
    startPc,        \* position of the call of Start
    startErr,       \* Start's err: "nil", "spawn", "timeout", "exit", and
                    \*   "started" (exec: already started)
    address,        \* Start's address result
    startScan,      \* Start's ReadBytes in progress: what it saw when it began
    timer,          \* time.After(1 * time.Minute): "off", "armed", "fired"
    watcherPc,      \* the goroutine of lines 115-119
    drainPc,        \* the goroutine logStderr
    drainDone,      \* logStderr's local done
    drainScan,      \* logStderr's ReadString in progress
    kpc,            \* position of each killer thread
    ktarget,        \* the handle each killer thread calls Kill on (0: none)
    cleanupPc,      \* position of CleanupClients
    loopIdx,        \* index of the range loop of CleanupClients
    clientVar,      \* the loop variable "client" the closures capture
    wg,             \* the WaitGroup counter
    plugin,         \* the process serving the environment: "up", "dead"
    endpoints,      \* the endpoints created so far; an address is an index
    xcalls,         \* history: the invocations of the served environment
    ncalls,         \* calls made on the root stub so far
    cpc,            \* position of each caller of the root stub
    creq,           \* the call each caller is making
    wire,           \* per call in flight: the request or the response
    cres            \* what the call returned to the caller

procVars == <<proc, killSig, outWritten, errWritten>>
bufVars == <<stdoutBuf, stderrBuf>>
flagVars == <<exited, doneLogging>>
startVars == <<startPc, startErr, address, startScan>>
drainVars == <<drainPc, drainDone, drainScan>>
killVars == <<kpc, ktarget>>
cleanupVars == <<cleanupPc, loopIdx, clientVar, wg>>
regVars == <<managedClients, nClients>>

rpcVars == <<plugin, endpoints, xcalls, ncalls, cpc, creq, wire, cres>>

clientVars == <<regVars, procVars, bufVars, flagVars, log, startVars, timer,
                watcherPc, drainVars, killVars, cleanupVars>>

vars == <<clientVars, rpcVars>>

(***************************************************************************)
(* Pure helpers.                                                           *)
(***************************************************************************)
\* unicode.IsSpace on the bytes of the model
IsSpace(c) == c \in {"sp", "nl"}

RECURSIVE TrimLeft(_)
TrimLeft(s) ==
    IF s = <<>> THEN s
    ELSE IF IsSpace(Head(s)) THEN TrimLeft(Tail(s)) ELSE s

RECURSIVE TrimRight(_)
TrimRight(s) ==
    IF s = <<>> THEN s
    ELSE IF IsSpace(s[Len(s)]) THEN TrimRight(SubSeq(s, 1, Len(s) - 1)) ELSE s

\* strings.TrimSpace
TrimSpace(s) == TrimRight(TrimLeft(s))

\* bytes.IndexByte(s, '\n') + 1, 0 when there is none
IndexNl(s) ==
    IF \E i \in 1..Len(s) : s[i] = "nl"
    THEN CHOOSE i \in 1..Len(s) : s[i] = "nl" /\ \A j \in 1..(i - 1) : s[j] # "nl"
    ELSE 0

\* A new(bytes.Buffer): nothing unread, read offset 0.
NewBuffer == [unread |-> <<>>, dirty |-> FALSE]

\* No read in progress.
NoScan == [len |-> 0, dirty |-> FALSE]

\* bytes.Buffer.ReadBytes('\n') / ReadString('\n') on the unread bytes s, run
\* alone: up to and including the first '\n'; without one, ALL the unread
\* bytes are consumed and returned together with io.EOF.
ReadLine(s) ==
    LET i == IndexNl(s) IN
    IF i > 0
    THEN [line |-> SubSeq(s, 1, i), rest |-> SubSeq(s, i + 1, Len(s)), eof |-> FALSE]
    ELSE [line |-> s, rest |-> <<>>, eof |-> TRUE]

\* bytes.Buffer.Write(p) by the copier of os/exec: appends; a Write that finds
\* the buffer empty with a non-zero read offset first resets the offset.
BufWrite(b, p) ==
    [unread |-> b.unread \o p,
     dirty |-> IF b.unread = <<>> THEN FALSE ELSE b.dirty]

\* The results a ReadBytes/ReadString can have that began when the buffer was
\* as scan says and ends with the buffer b.  bytes.Buffer is not safe for
\* concurrent use and the code shares it, without a lock, between the copier
\* of os/exec (Write) and the reader.  A read no Write overlapped is ReadLine.
\* A read that a Write overlapped has one of:
\*   - the result of running before the Write (the new bytes stay unread);
\*   - the result of running after the Write;
\*   - when it began on an empty buffer with a non-zero read offset: the
\*     Write resets the offset to 0 and stores its bytes at 0, the read then
\*     stores its stale end offset, and the bytes of the Write are skipped.
ReadResults(scan, b) ==
    LET old == SubSeq(b.unread, 1, scan.len)
        new == SubSeq(b.unread, scan.len + 1, Len(b.unread))
        before == ReadLine(old)
        after == ReadLine(b.unread)
        mk(r, rest, d) == [line |-> r.line, eof |-> r.eof,
                           buf |-> [unread |-> rest, dirty |-> d]]
    IN  IF new = <<>>
        THEN {mk(after, after.rest, b.dirty \/ after.line # <<>>)}
        ELSE {mk(before, before.rest \o new, b.dirty \/ before.line # <<>>),
              mk(after, after.rest, b.dirty \/ after.line # <<>>)}
             \cup (IF scan.len = 0 /\ scan.dirty
                   THEN {mk(before, <<>>, TRUE)}
                   ELSE {})

\* What a read sees when it begins: how many bytes are unread and, when there
\* are none, whether the read offset is non-zero.
BeginScan(b) == [len |-> Len(b.unread), dirty |-> b.dirty /\ b.unread = <<>>]

(***************************************************************************)
(* Construction.                                                           *)
(***************************************************************************)
\* NewClient: &client{cmd, false, false} for every handle.
NewClient ==
    /\ proc = [c \in Clients |-> "none"]
    /\ killSig = [c \in Clients |-> FALSE]
    /\ outWritten = [c \in Clients |-> <<>>]
    /\ errWritten = [c \in Clients |-> <<>>]
    /\ stdoutBuf = [c \in Clients |-> NewBuffer]
    /\ stderrBuf = [c \in Clients |-> NewBuffer]
    /\ exited = [c \in Clients |-> FALSE]
    /\ doneLogging = [c \in Clients |-> FALSE]
    /\ log = [c \in Clients |-> <<>>]
    /\ startPc = [c \in Clients |-> "idle"]
    /\ startErr = [c \in Clients |-> "nil"]
    /\ address = [c \in Clients |-> <<>>]
    /\ startScan = [c \in Clients |-> NoScan]
    /\ timer = [c \in Clients |-> "off"]
    /\ watcherPc = [c \in Clients |-> "none"]
    /\ drainPc = [c \in Clients |-> "none"]
    /\ drainDone = [c \in Clients |-> FALSE]
    /\ drainScan = [c \in Clients |-> NoScan]

\* No Kill and no CleanupClients called yet.
HostIdle ==
    /\ kpc = [k \in Killers |-> "idle"]
    /\ ktarget = [k \in Killers |-> 0]
    /\ cleanupPc = "idle"
    /\ loopIdx = 0
    /\ clientVar = 0
    /\ wg = 0

\* NewManagedClient: NewClient, then managedClients = append(managedClients, c).
NewManagedClient(reg, c) == Append(reg, c)

(***************************************************************************)
(* The values of the RPC layer (package rpc: Environment is the stub,      *)
(* EnvironmentServer the serving side, net/rpc carries the calls).         *)
(***************************************************************************)
\* Errors: nil; an error the served environment returns; what net/rpc makes
\* of it at the caller (rpc.ServerError, the message only); an error of the
\* connection (rpc.ErrShutdown, an I/O error, a failed dial).
NilErr == [kind |-> "nil", msg |-> ""]
AppErr == [kind |-> "app", msg |-> "boom"]
ConnErr == [kind |-> "conn", msg |-> "connection is shut down"]
DialErr == [kind |-> "conn", msg |-> "dial failed"]

\* rpc.ServerError(err.Error())
ServerError(err) == [kind |-> "server", msg |-> err.msg]

\* Objects: the served environment, and what its Builder and Ui return.  inv
\* tells the objects of different invocations apart.
NoObj == [kind |-> "none", name |-> "", inv |-> 0]
EnvObj == [kind |-> "env", name |-> "", inv |-> 0]

\* &EnvironmentCliArgs{args}
EnvironmentCliArgs(args) == [Args |-> args]

NoReq == [id |-> 0, method |-> "none", name |-> "", args |-> <<>>, afterDeath |-> FALSE]
NoMsg == [st |-> "none", method |-> "", name |-> "", cliArgs |-> EnvironmentCliArgs(<<>>),
          addr |-> 0, result |-> 0, err |-> NilErr]
\* What a call has returned: b or the Ui (hasStub: a stub object was returned;
\* stub: the endpoint its connection leads to, 0 for a nil *rpc.Client),
\* result, err; reply is the local variable of Builder and Ui, and dialed
\* tells that the call has called rpc.Dial.
NoResult == [hasStub |-> FALSE, stub |-> 0, result |-> 0, err |-> NilErr, reply |-> 0,
             dialed |-> FALSE]

\* The request client.Call(method, args, &reply) sends.
Request(method, name, rpcArgs) ==
    [NoMsg EXCEPT !.st = "req", !.method = method, !.name = name, !.cliArgs = rpcArgs]

\* The response net/rpc sends for a served method that set *reply and returned
\* err: with an error only its message travels and the reply is dropped, so
\* the caller's reply variable keeps its zero value.
sendResponse(addr, result, err) ==
    IF err # NilErr
    THEN [NoMsg EXCEPT !.st = "resp", !.err = ServerError(err)]
    ELSE [NoMsg EXCEPT !.st = "resp", !.addr = addr, !.result = result]

\* serveSingleConn(server): a new listener serving obj for one connection;
\* its address is its index in endpoints.
serveSingleConn(eps, obj) == Append(eps, [obj |-> obj, conns |-> 0, dials |-> 0, cid |-> 0])

\* rpc.Dial("tcp", addr) by call id, the plugin being up or not: the empty
\* address (0) fails at once; else a connection attempt on the endpoint, which
\* accepts it when the plugin lives and no connection was accepted before.
DialOk(eps, up, addr) == addr # 0 /\ up /\ eps[addr].conns = 0

Dial(eps, up, addr, id) ==
    IF addr = 0 THEN eps
    ELSE [eps EXCEPT ![addr] =
            IF DialOk(eps, up, addr)
            THEN [@ EXCEPT !.dials = @ + 1, !.conns = 1, !.cid = id]
            ELSE [@ EXCEPT !.dials = @ + 1]]

\* The root stub is connected to the endpoint that serves the environment;
\* no call was made.
RpcInit ==
    /\ plugin = "up"
    /\ endpoints = <<[obj |-> EnvObj, conns |-> 1, dials |-> 1, cid |-> 0]>>
    /\ xcalls = <<>>
    /\ ncalls = 0
    /\ cpc = [t \in Callers |-> "idle"]
    /\ creq = [t \in Callers |-> NoReq]
    /\ wire = [t \in Callers |-> NoMsg]
    /\ cres = [t \in Callers |-> NoResult]

\* A host that has created no stub: nothing is served and no thread calls.
RpcNone ==
    /\ plugin = "up"
    /\ endpoints = <<>>
    /\ xcalls = <<>>
    /\ ncalls = 0
    /\ cpc = <<>>
    /\ creq = <<>>
    /\ wire = <<>>
    /\ cres = <<>>

\* One handle, made by NewManagedClient.
Init ==
    /\ nClients = 1
    /\ managedClients = NewManagedClient(<<>>, 1)
    /\ NewClient
    /\ HostIdle
    /\ RpcNone

\* The state in which the root stub is used: one plugin handle exists, unused,
\* and the stub is connected to the served environment.
InitRpc ==
    /\ nClients = 1
    /\ managedClients = NewManagedClient(<<>>, 1)
    /\ NewClient
    /\ HostIdle
    /\ RpcInit

(***************************************************************************)
(* The subprocess.  Its writes reach the buffers through the copiers of    *)
(* os/exec, which cmd.Wait waits for: a byte is in the buffer before Wait  *)
(* returns, so write and copy are one step here.                           *)
(***************************************************************************)
\* The subprocess writes the bytes p on stdout.
ProcWriteStdout(c) ==
    /\ proc[c] = "running"
    /\ \E b1 \in OutBytes, more \in {<<>>} \cup {<<b2>> : b2 \in OutBytes} :
        LET p == <<b1>> \o more IN
        /\ Len(outWritten[c]) + Len(p) <= MaxOutLen
        /\ outWritten' = [outWritten EXCEPT ![c] = @ \o p]
        /\ stdoutBuf' = [stdoutBuf EXCEPT ![c] = BufWrite(@, p)]
    /\ UNCHANGED <<rpcVars, regVars, proc, killSig, errWritten, stderrBuf, flagVars, log,
                   startVars, timer, watcherPc, drainVars, killVars, cleanupVars>>

\* The subprocess prints its handshake line, the address "a", in one write.
ProcWriteAddress(c) ==
    /\ proc[c] = "running"
    /\ outWritten[c] = <<>>
    /\ outWritten' = [outWritten EXCEPT ![c] = <<"a", "nl">>]
    /\ stdoutBuf' = [stdoutBuf EXCEPT ![c] = BufWrite(@, <<"a", "nl">>)]
    /\ UNCHANGED <<rpcVars, regVars, proc, killSig, errWritten, stderrBuf, flagVars, log,
                   startVars, timer, watcherPc, drainVars, killVars, cleanupVars>>

\* The subprocess writes the bytes p on stderr.
ProcWriteStderr(c) ==
    /\ proc[c] = "running"
    /\ \E b1 \in ErrBytes, more \in {<<>>} \cup {<<b2>> : b2 \in ErrBytes} :
        LET p == <<b1>> \o more IN
        /\ Len(errWritten[c]) + Len(p) <= MaxErrLen
        /\ errWritten' = [errWritten EXCEPT ![c] = @ \o p]
        /\ stderrBuf' = [stderrBuf EXCEPT ![c] = BufWrite(@, p)]
    /\ UNCHANGED <<rpcVars, regVars, proc, killSig, outWritten, stdoutBuf, flagVars, log,
                   startVars, timer, watcherPc, drainVars, killVars, cleanupVars>>

\* The subprocess exits by itself, with exit code 0 or 1.
ProcExit(c) ==
    /\ proc[c] = "running"
    /\ \E code \in {"exit0", "exit1"} : proc' = [proc EXCEPT ![c] = code]
    /\ UNCHANGED <<rpcVars, regVars, killSig, outWritten, errWritten, bufVars, flagVars, log,
                   startVars, timer, watcherPc, drainVars, killVars, cleanupVars>>

\* The subprocess dies of a SIGKILL that was issued.
ProcKilled(c) ==
    /\ proc[c] = "running"
    /\ killSig[c]
    /\ proc' = [proc EXCEPT ![c] = "killed"]
    /\ UNCHANGED <<rpcVars, regVars, killSig, outWritten, errWritten, bufVars, flagVars, log,
                   startVars, timer, watcherPc, drainVars, killVars, cleanupVars>>

\* c.cmd.Process.Kill(): a SIGKILL when the process runs, an ignored error
\* when it is gone.
ProcessKill(sig, c) == [sig EXCEPT ![c] = TRUE]


(***************************************************************************)
(* client.Start                                                            *)
(***************************************************************************)
\* StartSpawn that starts the exit watcher and logStderr before it looks at
\* the error of c.cmd.Start().
StartSpawnTasksFirst(c) ==
    /\ c <= nClients
    /\ startPc[c] = "idle"
    /\ watcherPc' = [watcherPc EXCEPT ![c] = "wait"]
    /\ drainPc' = [drainPc EXCEPT ![c] = "check"]
    /\ \/ /\ startErr' = [startErr EXCEPT ![c] = "spawn"]
          /\ startPc' = [startPc EXCEPT ![c] = "returned"]
          /\ UNCHANGED <<proc, timer>>
       \/ /\ proc' = [proc EXCEPT ![c] = "running"]
          /\ timer' = [timer EXCEPT ![c] = "armed"]
          /\ startPc' = [startPc EXCEPT ![c] = "select"]
          /\ UNCHANGED startErr
    /\ UNCHANGED <<rpcVars, regVars, killSig, outWritten, errWritten, bufVars, flagVars, log,
                   address, startScan, drainDone, drainScan, killVars, cleanupVars>>

\* Lines 86-125: c.cmd.Start(), which fails (SpawnError: Start returns at
\* once) or creates the process; then the deferred kill is registered, the
\* exit watcher and logStderr are started and the 1-minute timer is armed.
StartSpawn(c) ==
    /\ c <= nClients
    /\ startPc[c] = "idle"
    /\ \/ /\ startErr' = [startErr EXCEPT ![c] = "spawn"]
          /\ startPc' = [startPc EXCEPT ![c] = "returned"]
          /\ UNCHANGED <<proc, watcherPc, drainPc, timer>>
       \/ /\ proc' = [proc EXCEPT ![c] = "running"]
          /\ watcherPc' = [watcherPc EXCEPT ![c] = "wait"]
          /\ drainPc' = [drainPc EXCEPT ![c] = "check"]
          /\ timer' = [timer EXCEPT ![c] = "armed"]
          /\ startPc' = [startPc EXCEPT ![c] = "select"]
          /\ UNCHANGED startErr
    /\ UNCHANGED <<rpcVars, regVars, killSig, outWritten, errWritten, bufVars, flagVars, log,
                   address, startScan, drainDone, drainScan, killVars, cleanupVars>>

\* Lines 82-125 in a call of Start on a handle on which an earlier call of
\* Start has returned.  When the process was created, c.cmd.Start() returns
\* the error "exec: already started" and Start returns it at once (the new
\* buffers it assigned to cmd.Stdout and cmd.Stderr are used by nobody).  When
\* the earlier call failed to create the process, c.cmd.Process is still nil
\* and c.cmd.Start() tries again, as in StartSpawn.
StartAgain(c) ==
    /\ c <= nClients
    /\ startPc[c] = "returned"
    /\ address' = [address EXCEPT ![c] = <<>>]
    /\ IF proc[c] # "none"
       THEN /\ startErr' = [startErr EXCEPT ![c] = "started"]
            /\ UNCHANGED <<proc, watcherPc, drainPc, timer, startPc>>
       ELSE \/ /\ startErr' = [startErr EXCEPT ![c] = "spawn"]
               /\ UNCHANGED <<proc, watcherPc, drainPc, timer, startPc>>
            \/ /\ proc' = [proc EXCEPT ![c] = "running"]
               /\ watcherPc' = [watcherPc EXCEPT ![c] = "wait"]
               /\ drainPc' = [drainPc EXCEPT ![c] = "check"]
               /\ timer' = [timer EXCEPT ![c] = "armed"]
               /\ startPc' = [startPc EXCEPT ![c] = "select"]
               /\ startErr' = [startErr EXCEPT ![c] = "nil"]
    /\ UNCHANGED <<rpcVars, regVars, killSig, outWritten, errWritten, bufVars,
                   flagVars, log, startScan, drainDone, drainScan, killVars,
                   cleanupVars>>

\* The runtime sends on the channel of time.After once the minute is over.
TimerFire(c) ==
    /\ timer[c] = "armed"
    /\ timer' = [timer EXCEPT ![c] = "fired"]
    /\ UNCHANGED <<rpcVars, regVars, procVars, bufVars, flagVars, log, startVars,
                   watcherPc, drainVars, killVars, cleanupVars>>

\* StartSelect with the timeout reported whether or not the timer has fired.
StartSelectNoTimer(c) ==
    /\ startPc[c] = "select"
    /\ startErr' = [startErr EXCEPT ![c] = "timeout"]
    /\ startPc' = [startPc EXCEPT ![c] = "exited"]
    /\ UNCHANGED <<rpcVars, regVars, procVars, bufVars, flagVars, log, address, startScan,
                   timer, watcherPc, drainVars, killVars, cleanupVars>>

\* Lines 129-134: select { case <-timeout: err = timeout; done = true
\* default: }.
StartSelect(c) ==
    /\ startPc[c] = "select"
    /\ startErr' = [startErr EXCEPT ![c] = IF timer[c] = "fired" THEN "timeout" ELSE @]
    /\ startPc' = [startPc EXCEPT ![c] = "exited"]
    /\ UNCHANGED <<rpcVars, regVars, procVars, bufVars, flagVars, log, address, startScan,
                   timer, watcherPc, drainVars, killVars, cleanupVars>>

\* StartCheckExited without the test err == nil.
StartCheckExitedOverrides(c) ==
    /\ startPc[c] = "exited"
    /\ startErr' = [startErr EXCEPT ![c] = IF exited[c] THEN "exit" ELSE @]
    /\ startPc' = [startPc EXCEPT ![c] = "read"]
    /\ UNCHANGED <<rpcVars, regVars, procVars, bufVars, flagVars, log, address, startScan,
                   timer, watcherPc, drainVars, killVars, cleanupVars>>

\* Lines 136-139: if err == nil && c.Exited() { err = exited; done = true }.
StartCheckExited(c) ==
    /\ startPc[c] = "exited"
    /\ startErr' = [startErr EXCEPT ![c] =
                        IF @ = "nil" /\ exited[c] THEN "exit" ELSE @]
    /\ startPc' = [startPc EXCEPT ![c] = "read"]
    /\ UNCHANGED <<rpcVars, regVars, procVars, bufVars, flagVars, log, address, startScan,
                   timer, watcherPc, drainVars, killVars, cleanupVars>>

\* Line 141: stdout.ReadBytes('\n') begins.
StartReadBegin(c) ==
    /\ startPc[c] = "read"
    /\ startScan' = [startScan EXCEPT ![c] = BeginScan(stdoutBuf[c])]
    /\ startPc' = [startPc EXCEPT ![c] = "line"]
    /\ UNCHANGED <<rpcVars, regVars, procVars, bufVars, flagVars, log, startErr, address,
                   timer, watcherPc, drainVars, killVars, cleanupVars>>

\* StartReadLine with lerr ignored: whatever was read is taken as the address.
StartReadLineAnyData(c) ==
    /\ startPc[c] = "line"
    /\ \E r \in ReadResults(startScan[c], stdoutBuf[c]) :
        /\ stdoutBuf' = [stdoutBuf EXCEPT ![c] = r.buf]
        /\ IF r.line # <<>>
           THEN /\ address' = [address EXCEPT ![c] = TrimSpace(r.line)]
                /\ startErr' = [startErr EXCEPT ![c] = "nil"]
                /\ startPc' = [startPc EXCEPT ![c] = "defer"]
           ELSE /\ startPc' = [startPc EXCEPT ![c] =
                                IF startErr[c] # "nil" THEN "defer" ELSE "select"]
                /\ UNCHANGED <<address, startErr>>
    /\ startScan' = [startScan EXCEPT ![c] = NoScan]
    /\ UNCHANGED <<rpcVars, regVars, procVars, stderrBuf, flagVars, log,
                   timer, watcherPc, drainVars, killVars, cleanupVars>>

\* StartReadLine that polls again whatever err is.
StartReadLineNeverGivesUp(c) ==
    /\ startPc[c] = "line"
    /\ \E r \in ReadResults(startScan[c], stdoutBuf[c]) :
        /\ stdoutBuf' = [stdoutBuf EXCEPT ![c] = r.buf]
        /\ IF ~r.eof
           THEN /\ address' = [address EXCEPT ![c] = TrimSpace(r.line)]
                /\ startErr' = [startErr EXCEPT ![c] = "nil"]
                /\ startPc' = [startPc EXCEPT ![c] = "defer"]
           ELSE /\ startPc' = [startPc EXCEPT ![c] = "select"]
                /\ UNCHANGED <<address, startErr>>
    /\ startScan' = [startScan EXCEPT ![c] = NoScan]
    /\ UNCHANGED <<rpcVars, regVars, procVars, stderrBuf, flagVars, log,
                   timer, watcherPc, drainVars, killVars, cleanupVars>>

\* Lines 141-156: ReadBytes returns.  A line (lerr == nil): address is the
\* trimmed line, err is reset and the loop is left.  No line: return when
\* err is set, else sleep and poll again.
StartReadLine(c) ==
    /\ startPc[c] = "line"
    /\ \E r \in ReadResults(startScan[c], stdoutBuf[c]) :
        /\ stdoutBuf' = [stdoutBuf EXCEPT ![c] = r.buf]
        /\ IF ~r.eof
           THEN /\ address' = [address EXCEPT ![c] = TrimSpace(r.line)]
                /\ startErr' = [startErr EXCEPT ![c] = "nil"]
                /\ startPc' = [startPc EXCEPT ![c] = "defer"]
           ELSE /\ startPc' = [startPc EXCEPT ![c] =
                                IF startErr[c] # "nil" THEN "defer" ELSE "select"]
                /\ UNCHANGED <<address, startErr>>
    /\ startScan' = [startScan EXCEPT ![c] = NoScan]
    /\ UNCHANGED <<rpcVars, regVars, procVars, stderrBuf, flagVars, log,
                   timer, watcherPc, drainVars, killVars, cleanupVars>>

\* StartDefer without the kill.
StartDeferNoKill(c) ==
    /\ startPc[c] = "defer"
    /\ startPc' = [startPc EXCEPT ![c] = "returned"]
    /\ UNCHANGED <<rpcVars, regVars, procVars, bufVars, flagVars, log,
                   startErr, address, startScan, timer, watcherPc, drainVars,
                   killVars, cleanupVars>>

\* Lines 102-112, run when Start returns: if err != nil the process is
\* killed; then Start has returned.
StartDefer(c) ==
    /\ startPc[c] = "defer"
    /\ killSig' = IF startErr[c] # "nil" THEN ProcessKill(killSig, c) ELSE killSig
    /\ startPc' = [startPc EXCEPT ![c] = "returned"]
    /\ UNCHANGED <<rpcVars, regVars, proc, outWritten, errWritten, bufVars, flagVars, log,
                   startErr, address, startScan, timer, watcherPc, drainVars,
                   killVars, cleanupVars>>

(***************************************************************************)
(* The exit watcher, lines 115-119.                                        *)
(***************************************************************************)
\* c.cmd.Wait() returns once the process is gone and its output is copied;
\* then log.Printf("%s: plugin process exited\n").
WatcherWait(c) ==
    /\ watcherPc[c] = "wait"
    /\ proc[c] \in {"exit0", "exit1", "killed"}
    /\ log' = [log EXCEPT ![c] = Append(@, ExitMsg)]
    /\ watcherPc' = [watcherPc EXCEPT ![c] = "set"]
    /\ UNCHANGED <<rpcVars, regVars, procVars, bufVars, flagVars, startVars, timer,
                   drainVars, killVars, cleanupVars>>

\* c.exited = true
WatcherSetExited(c) ==
    /\ watcherPc[c] = "set"
    /\ exited' = [exited EXCEPT ![c] = TRUE]
    /\ watcherPc' = [watcherPc EXCEPT ![c] = "done"]
    /\ UNCHANGED <<rpcVars, regVars, procVars, bufVars, doneLogging, log, startVars, timer,
                   drainVars, killVars, cleanupVars>>

(***************************************************************************)
(* client.logStderr                                                        *)
(***************************************************************************)
\* DrainCheckExited with done set without looking at c.Exited().
DrainCheckExitedAlwaysDone(c) ==
    /\ drainPc[c] = "check"
    /\ drainDone' = [drainDone EXCEPT ![c] = TRUE]
    /\ drainPc' = [drainPc EXCEPT ![c] = "read"]
    /\ UNCHANGED <<rpcVars, regVars, procVars, bufVars, flagVars, log, startVars, timer,
                   watcherPc, drainScan, killVars, cleanupVars>>

\* Lines 188-191: a new round of the outer loop: if c.Exited() { done = true }.
DrainCheckExited(c) ==
    /\ drainPc[c] = "check"
    /\ drainDone' = [drainDone EXCEPT ![c] = exited[c]]
    /\ drainPc' = [drainPc EXCEPT ![c] = "read"]
    /\ UNCHANGED <<rpcVars, regVars, procVars, bufVars, flagVars, log, startVars, timer,
                   watcherPc, drainScan, killVars, cleanupVars>>

\* Line 196: buf.ReadString('\n') begins.
DrainReadBegin(c) ==
    /\ drainPc[c] = "read"
    /\ drainScan' = [drainScan EXCEPT ![c] = BeginScan(stderrBuf[c])]
    /\ drainPc' = [drainPc EXCEPT ![c] = "line"]
    /\ UNCHANGED <<rpcVars, regVars, procVars, bufVars, flagVars, log, startVars, timer,
                   watcherPc, drainDone, killVars, cleanupVars>>

\* Lines 194-203: ReadString returns; a non-empty line is printed; the inner
\* loop goes on until io.EOF, then comes the sleep, and the outer loop goes
\* on unless done is set.
DrainReadLine(c) ==
    /\ drainPc[c] = "line"
    /\ \E r \in ReadResults(drainScan[c], stderrBuf[c]) :
        /\ stderrBuf' = [stderrBuf EXCEPT ![c] = r.buf]
        /\ log' = [log EXCEPT ![c] = IF r.line # <<>> THEN Append(@, r.line) ELSE @]
        /\ drainPc' = [drainPc EXCEPT ![c] =
                            IF ~r.eof THEN "read"
                            ELSE IF drainDone[c] THEN "finish" ELSE "check"]
    /\ drainScan' = [drainScan EXCEPT ![c] = NoScan]
    /\ UNCHANGED <<rpcVars, regVars, procVars, stdoutBuf, flagVars, startVars, timer,
                   watcherPc, drainDone, killVars, cleanupVars>>

\* Lines 205-206: the outer loop has ended: c.doneLogging = true.
DrainFinish(c) ==
    /\ drainPc[c] = "finish"
    /\ doneLogging' = [doneLogging EXCEPT ![c] = TRUE]
    /\ drainPc' = [drainPc EXCEPT ![c] = "done"]
    /\ UNCHANGED <<rpcVars, regVars, procVars, bufVars, exited, log, startVars, timer,
                   watcherPc, drainDone, drainScan, killVars, cleanupVars>>

(***************************************************************************)
(* client.Kill, called by killer thread k on the handle ktarget[k].        *)
(***************************************************************************)
\* The host calls c.Kill(), any number of times, one call after the other.
HostKill(c) ==
    /\ c <= nClients
    /\ kpc[0] \in {"idle", "noProcess", "returned"}
    /\ kpc' = [kpc EXCEPT ![0] = "check"]
    /\ ktarget' = [ktarget EXCEPT ![0] = c]
    /\ UNCHANGED <<rpcVars, regVars, procVars, bufVars, flagVars, log, startVars, timer,
                   watcherPc, drainVars, cleanupVars>>

\* KillCheck without the test of c.cmd.Process.
KillCheckNoNilTest(k) ==
    /\ kpc[k] = "check"
    /\ kpc' = [kpc EXCEPT ![k] = "signal"]
    /\ UNCHANGED <<rpcVars, regVars, procVars, bufVars, flagVars, log, startVars, timer,
                   watcherPc, drainVars, ktarget, cleanupVars>>

\* Lines 168-170: if c.cmd.Process == nil { return }.
KillCheck(k) ==
    /\ kpc[k] = "check"
    /\ kpc' = [kpc EXCEPT ![k] = IF proc[ktarget[k]] = "none" THEN "noProcess" ELSE "signal"]
    /\ UNCHANGED <<rpcVars, regVars, procVars, bufVars, flagVars, log, startVars, timer,
                   watcherPc, drainVars, ktarget, cleanupVars>>

\* KillSignal without the signal.
KillSignalOmitted(k) ==
    /\ kpc[k] = "signal"
    /\ kpc' = [kpc EXCEPT ![k] = "poll"]
    /\ UNCHANGED <<rpcVars, regVars, procVars, bufVars, flagVars, log,
                   startVars, timer, watcherPc, drainVars, ktarget, cleanupVars>>

\* Line 172: c.cmd.Process.Kill().
KillSignal(k) ==
    /\ kpc[k] = "signal"
    /\ killSig' = ProcessKill(killSig, ktarget[k])
    /\ kpc' = [kpc EXCEPT ![k] = "poll"]
    /\ UNCHANGED <<rpcVars, regVars, proc, outWritten, errWritten, bufVars, flagVars, log,
                   startVars, timer, watcherPc, drainVars, ktarget, cleanupVars>>

\* KillPoll that waits for c.exited instead of c.doneLogging.
KillPollWaitsExited(k) ==
    /\ kpc[k] = "poll"
    /\ exited[ktarget[k]]
    /\ kpc' = [kpc EXCEPT ![k] = "returned"]
    /\ UNCHANGED <<rpcVars, regVars, procVars, bufVars, flagVars, log, startVars, timer,
                   watcherPc, drainVars, ktarget, cleanupVars>>

\* Lines 175-184: poll until c.doneLogging, then return.
KillPoll(k) ==
    /\ kpc[k] = "poll"
    /\ doneLogging[ktarget[k]]
    /\ kpc' = [kpc EXCEPT ![k] = "returned"]
    /\ UNCHANGED <<rpcVars, regVars, procVars, bufVars, flagVars, log, startVars, timer,
                   watcherPc, drainVars, ktarget, cleanupVars>>

(***************************************************************************)
(* CleanupClients                                                          *)
(***************************************************************************)
\* The host calls CleanupClients; the range loop starts.
CleanupCall ==
    /\ cleanupPc = "idle"
    /\ cleanupPc' = "loop"
    /\ UNCHANGED <<rpcVars, regVars, procVars, bufVars, flagVars, log, startVars, timer,
                   watcherPc, drainVars, killVars, loopIdx, clientVar, wg>>

\* Lines 33-40, one iteration: the loop variable client is assigned the next
\* handle, wg.Add(1), and a goroutine is started whose closure refers to the
\* variable client, not to its value.  After the last iteration: line 42.
CleanupLoop ==
    /\ cleanupPc = "loop"
    /\ IF loopIdx < Len(managedClients)
       THEN /\ loopIdx' = loopIdx + 1
            /\ clientVar' = managedClients[loopIdx + 1]
            /\ wg' = wg + 1
            /\ kpc' = [kpc EXCEPT ![loopIdx + 1] = "spawned"]
            /\ UNCHANGED cleanupPc
       ELSE /\ cleanupPc' = "wait"
            /\ UNCHANGED <<loopIdx, clientVar, wg, kpc>>
    /\ UNCHANGED <<rpcVars, regVars, procVars, bufVars, flagVars, log, startVars, timer,
                   watcherPc, drainVars, ktarget>>

\* Line 37: the goroutine evaluates client, reading the shared loop variable
\* as it is now, and calls Kill on it.
CleanupGoKill(k) ==
    /\ k >= 1
    /\ kpc[k] = "spawned"
    /\ ktarget' = [ktarget EXCEPT ![k] = clientVar]
    /\ kpc' = [kpc EXCEPT ![k] = "check"]
    /\ UNCHANGED <<rpcVars, regVars, procVars, bufVars, flagVars, log, startVars, timer,
                   watcherPc, drainVars, cleanupVars>>

\* Line 38: wg.Done() after Kill returned.
CleanupGoDone(k) ==
    /\ k >= 1
    /\ kpc[k] \in {"noProcess", "returned"}
    /\ kpc' = [kpc EXCEPT ![k] = "done"]
    /\ wg' = wg - 1
    /\ UNCHANGED <<rpcVars, regVars, procVars, bufVars, flagVars, log, startVars, timer,
                   watcherPc, drainVars, ktarget, cleanupPc, loopIdx,
                   clientVar>>

\* Line 43: wg.Wait() returns when the counter is zero.
CleanupWait ==
    /\ cleanupPc = "wait"
    /\ wg = 0
    /\ cleanupPc' = "returned"
    /\ UNCHANGED <<rpcVars, regVars, procVars, bufVars, flagVars, log, startVars, timer,
                   watcherPc, drainVars, killVars, loopIdx, clientVar, wg>>

(***************************************************************************)
(* Specifications.                                                         *)
(***************************************************************************)
\* The steps of the goroutines of a handle, of its timer and of the kernel
\* delivering a signal.
StartStep(c) ==
    \/ StartSelect(c)
    \/ StartCheckExited(c)
    \/ StartReadBegin(c)
    \/ StartReadLine(c)
    \/ StartDefer(c)

WatcherStep(c) ==
    \/ WatcherWait(c)
    \/ WatcherSetExited(c)

DrainStep(c) ==
    \/ DrainCheckExited(c)
    \/ DrainReadBegin(c)
    \/ DrainReadLine(c)
    \/ DrainFinish(c)

Internal(c) ==
    \/ ProcKilled(c)
    \/ TimerFire(c)
    \/ StartStep(c)
    \/ WatcherStep(c)
    \/ DrainStep(c)

KillStep(k) ==
    \/ KillCheck(k)
    \/ KillSignal(k)
    \/ KillPoll(k)

CleanupStep ==
    \/ CleanupCall
    \/ CleanupLoop
    \/ CleanupWait
    \/ \E k \in Killers : CleanupGoKill(k) \/ CleanupGoDone(k)

\* The handshake: one handle whose subprocess writes on stdout only, in any
\* pieces, and may exit by itself; the host calls Start, and Kill at any time.
Next ==
    \/ \E c \in Clients :
        \/ StartSpawn(c)
        \/ HostKill(c)
        \/ ProcWriteStdout(c)
        \/ ProcExit(c)
        \/ Internal(c)
    \/ \E k \in Killers : KillStep(k)

Spec == Init /\ [][Next]_vars

\* Logging: one handle whose subprocess prints its address in one write and
\* writes on stderr in any pieces, and may exit by itself; the host calls
\* Start, and Kill at any time.
NextLog ==
    \/ \E c \in Clients :
        \/ StartSpawn(c)
        \/ HostKill(c)
        \/ ProcWriteAddress(c)
        \/ ProcWriteStderr(c)
        \/ ProcExit(c)
        \/ Internal(c)
    \/ \E k \in Killers : KillStep(k)

SpecLog == Init /\ [][NextLog]_vars

\* The handles 1..n in the state in which a Start that returned the address
\* "a" leaves them (the subprocess runs, the watcher waits, logStderr polls);
\* the other handles as NewClient made them.
Started(n) ==
    /\ proc = [c \in Clients |-> IF c <= n THEN "running" ELSE "none"]
    /\ killSig = [c \in Clients |-> FALSE]
    /\ outWritten = [c \in Clients |-> IF c <= n THEN <<"a", "nl">> ELSE <<>>]
    /\ errWritten = [c \in Clients |-> <<>>]
    /\ stdoutBuf = [c \in Clients |->
                        IF c <= n THEN [unread |-> <<>>, dirty |-> TRUE] ELSE NewBuffer]
    /\ stderrBuf = [c \in Clients |-> NewBuffer]
    /\ exited = [c \in Clients |-> FALSE]
    /\ doneLogging = [c \in Clients |-> FALSE]
    /\ log = [c \in Clients |-> <<>>]
    /\ startPc = [c \in Clients |-> IF c <= n THEN "returned" ELSE "idle"]
    /\ startErr = [c \in Clients |-> "nil"]
    /\ address = [c \in Clients |-> IF c <= n THEN <<"a">> ELSE <<>>]
    /\ startScan = [c \in Clients |-> NoScan]
    /\ timer = [c \in Clients |-> IF c <= n THEN "armed" ELSE "off"]
    /\ watcherPc = [c \in Clients |-> IF c <= n THEN "wait" ELSE "none"]
    /\ drainPc = [c \in Clients |-> IF c <= n THEN "check" ELSE "none"]
    /\ drainDone = [c \in Clients |-> FALSE]
    /\ drainScan = [c \in Clients |-> NoScan]

RECURSIVE Registry(_)
\* The registry after n calls of NewManagedClient.
Registry(n) == IF n = 0 THEN <<>> ELSE NewManagedClient(Registry(n - 1), n)

\* Kill after a successful Start: one started handle, whose subprocess writes
\* on stderr in any pieces and may exit by itself; the host calls Kill, any
\* number of times.
InitKill ==
    /\ nClients = 1
    /\ managedClients = Registry(1)
    /\ Started(1)
    /\ HostIdle
    /\ RpcNone

NextKill ==
    \/ \E c \in Clients :
        \/ HostKill(c)
        \/ ProcWriteStderr(c)
        \/ ProcExit(c)
        \/ ProcKilled(c)
        \/ WatcherStep(c)
        \/ DrainStep(c)
    \/ \E k \in Killers : KillStep(k)

\* Every goroutine is scheduled again and again and the kernel delivers a
\* SIGKILL; the subprocess and the host are free to do nothing.
FairKill ==
    /\ \A c \in Clients :
        /\ WF_vars(ProcKilled(c))
        /\ WF_vars(WatcherStep(c))
        /\ WF_vars(DrainStep(c))
    /\ \A k \in Killers : WF_vars(KillStep(k))

SpecKillFair == InitKill /\ [][NextKill]_vars /\ FairKill

\* Teardown: NumClients managed handles, each started; the host calls
\* CleanupClients; a subprocess exits by itself or dies when it is killed.
InitCleanup ==
    /\ nClients = NumClients
    /\ managedClients = Registry(NumClients)
    /\ Started(NumClients)
    /\ HostIdle
    /\ RpcNone

NextCleanup ==
    \/ CleanupStep
    \/ \E k \in Killers : KillStep(k)
    \/ \E c \in Clients :
        \/ ProcExit(c)
        \/ ProcKilled(c)
        \/ WatcherStep(c)
        \/ DrainStep(c)

SpecCleanup == InitCleanup /\ [][NextCleanup]_vars

\* Start to its end: one handle whose subprocess writes on stdout in any
\* pieces, or nothing, and may exit by itself or go on for ever; the host
\* calls Start.  logStderr takes no step here: it shares no variable with
\* Start, the watcher or the timer, so its steps change nothing Start sees.
NextStart ==
    \E c \in Clients :
        \/ StartSpawn(c)
        \/ ProcWriteStdout(c)
        \/ ProcExit(c)
        \/ ProcKilled(c)
        \/ TimerFire(c)
        \/ StartStep(c)
        \/ WatcherStep(c)

\* The thread that called Start is scheduled again and again, and the
\* runtime fires the timer of the deadline.
FairStart == \A c \in Clients : WF_vars(StartStep(c)) /\ WF_vars(TimerFire(c))

SpecStartFair == Init /\ [][NextStart]_vars /\ FairStart

\* Start called again: one handle whose subprocess prints its address in one
\* write and may exit by itself; the host calls Start, calls it again when it
\* has returned, and calls Kill at any time.
NextRestart ==
    \/ \E c \in Clients :
        \/ StartSpawn(c)
        \/ StartAgain(c)
        \/ HostKill(c)
        \/ ProcWriteAddress(c)
        \/ ProcExit(c)
        \/ Internal(c)
    \/ \E k \in Killers : KillStep(k)

SpecRestart == Init /\ [][NextRestart]_vars

(***************************************************************************)
(* The root interface proxy: package rpc, Environment (the stub) and       *)
(* EnvironmentServer (the serving side).  Caller t is a thread of the host *)
(* making one call of a method of the root stub; net/rpc pairs each        *)
(* response with its request, so wire[t] is the message in flight of the   *)
(* call of caller t.                                                       *)
(***************************************************************************)
\* The call begins: the request is sent.
BeginCall(t, method, name, args) ==
    /\ cpc[t] = "idle"
    /\ ncalls' = ncalls + 1
    /\ creq' = [creq EXCEPT ![t] = [id |-> ncalls + 1, method |-> method,
                                    name |-> name, args |-> args,
                                    afterDeath |-> plugin = "dead"]]
    /\ wire' = [wire EXCEPT ![t] =
                    Request(method, name, EnvironmentCliArgs(args))]
    /\ cres' = [cres EXCEPT ![t] = NoResult]
    /\ cpc' = [cpc EXCEPT ![t] = "call"]
    /\ UNCHANGED <<clientVars, plugin, endpoints, xcalls>>

\* Lines 24-26: e.client.Call("Environment.Builder", name, &reply).
EnvironmentBuilder(t) == \E name \in Names : BeginCall(t, "Builder", name, <<>>)

\* Lines 40-42: e.client.Call("Environment.Cli", &EnvironmentCliArgs{args}, &result).
EnvironmentCli(t) == \E args \in ArgLists : BeginCall(t, "Cli", "", args)

\* Lines 46-48: e.client.Call("Environment.Ui", new(interface{}), &reply).
EnvironmentUi(t) == BeginCall(t, "Ui", "", <<>>)

\* What e.env.Builder(name) may return in its inv-th invocation: a builder,
\* or an error.
EnvBuilder(name, inv) ==
    {[obj |-> [kind |-> "builder", name |-> name, inv |-> inv], err |-> NilErr],
     [obj |-> NoObj, err |-> AppErr]}

\* What e.env.Ui() returns in its inv-th invocation.
EnvUi(inv) == [kind |-> "ui", name |-> "", inv |-> inv]

\* What e.env.Cli(args) may return.
EnvCli(args) == {[result |-> r, err |-> e] : r \in CliResults, e \in {NilErr, AppErr}}

\* The entry of the history xcalls for one invocation of the environment.
XCall(req, method, name, args, obj, result, err, addr) ==
    [id |-> req.id, method |-> method, name |-> name, args |-> args, obj |-> obj,
     result |-> result, err |-> err, addr |-> addr]

\* EnvironmentServerBuilder with the builder wrapped in an endpoint before
\* err is looked at.
EnvironmentServerBuilderWrapFirst(t) ==
    /\ plugin = "up"
    /\ wire[t].st = "req"
    /\ wire[t].method = "Builder"
    /\ \E out \in EnvBuilder(wire[t].name, Len(xcalls) + 1) :
        LET addr == Len(endpoints) + 1 IN
        /\ endpoints' = serveSingleConn(endpoints, out.obj)
        /\ xcalls' = Append(xcalls, XCall(creq[t], "Builder", wire[t].name, <<>>,
                                          out.obj, 0, out.err,
                                          IF out.err # NilErr THEN 0 ELSE addr))
        /\ wire' = [wire EXCEPT ![t] = sendResponse(addr, 0, out.err)]
    /\ UNCHANGED <<clientVars, plugin, ncalls, cpc, creq, cres>>

\* Lines 55-67: EnvironmentServer.Builder serves the request of caller t.
EnvironmentServerBuilder(t) ==
    /\ plugin = "up"
    /\ wire[t].st = "req"
    /\ wire[t].method = "Builder"
    /\ \E out \in EnvBuilder(wire[t].name, Len(xcalls) + 1) :
        IF out.err # NilErr
        THEN /\ xcalls' = Append(xcalls, XCall(creq[t], "Builder", wire[t].name, <<>>,
                                               out.obj, 0, out.err, 0))
             /\ wire' = [wire EXCEPT ![t] = sendResponse(0, 0, out.err)]
             /\ UNCHANGED endpoints
        ELSE LET addr == Len(endpoints) + 1 IN
             /\ endpoints' = serveSingleConn(endpoints, out.obj)
             /\ xcalls' = Append(xcalls, XCall(creq[t], "Builder", wire[t].name, <<>>,
                                               out.obj, 0, NilErr, addr))
             /\ wire' = [wire EXCEPT ![t] = sendResponse(addr, 0, NilErr)]
    /\ UNCHANGED <<clientVars, plugin, ncalls, cpc, creq, cres>>

\* Lines 69-72: EnvironmentServer.Cli serves the request of caller t.
EnvironmentServerCli(t) ==
    /\ plugin = "up"
    /\ wire[t].st = "req"
    /\ wire[t].method = "Cli"
    /\ \E out \in EnvCli(wire[t].cliArgs.Args) :
        /\ xcalls' = Append(xcalls, XCall(creq[t], "Cli", "", wire[t].cliArgs.Args,
                                          NoObj, out.result, out.err, 0))
        /\ wire' = [wire EXCEPT ![t] = sendResponse(0, out.result, out.err)]
    /\ UNCHANGED <<clientVars, plugin, endpoints, ncalls, cpc, creq, cres>>

\* EnvironmentServerUi that serves every Ui on the endpoint it made first.
EnvironmentServerUiCached(t) ==
    /\ plugin = "up"
    /\ wire[t].st = "req"
    /\ wire[t].method = "Ui"
    /\ LET ui == EnvUi(Len(xcalls) + 1)
           old == {a \in 1..Len(endpoints) : endpoints[a].obj.kind = "ui"}
           addr == IF old = {} THEN Len(endpoints) + 1
                   ELSE CHOOSE a \in old : \A b \in old : a <= b
       IN
       /\ endpoints' = IF old = {} THEN serveSingleConn(endpoints, ui) ELSE endpoints
       /\ xcalls' = Append(xcalls, XCall(creq[t], "Ui", "", <<>>, ui, 0, NilErr, addr))
       /\ wire' = [wire EXCEPT ![t] = sendResponse(addr, 0, NilErr)]
    /\ UNCHANGED <<clientVars, plugin, ncalls, cpc, creq, cres>>

\* Lines 74-83: EnvironmentServer.Ui serves the request of caller t.
EnvironmentServerUi(t) ==
    /\ plugin = "up"
    /\ wire[t].st = "req"
    /\ wire[t].method = "Ui"
    /\ LET ui == EnvUi(Len(xcalls) + 1)
           addr == Len(endpoints) + 1
       IN
       /\ endpoints' = serveSingleConn(endpoints, ui)
       /\ xcalls' = Append(xcalls, XCall(creq[t], "Ui", "", <<>>, ui, 0, NilErr, addr))
       /\ wire' = [wire EXCEPT ![t] = sendResponse(addr, 0, NilErr)]
    /\ UNCHANGED <<clientVars, plugin, ncalls, cpc, creq, cres>>

\* The plugin process dies; its connections and listeners die with it.
PluginDies ==
    /\ plugin = "up"
    /\ plugin' = "dead"
    /\ UNCHANGED <<clientVars, endpoints, xcalls, ncalls, cpc, creq, wire, cres>>

\* client.Call on a connection whose peer is dead: the request is never
\* served and Call returns an error of the connection.
ConnectionLost(t) ==
    /\ plugin = "dead"
    /\ wire[t].st = "req"
    /\ wire' = [wire EXCEPT ![t] = [NoMsg EXCEPT !.st = "resp", !.err = ConnErr]]
    /\ UNCHANGED <<clientVars, plugin, endpoints, xcalls, ncalls, cpc, creq, cres>>

\* What Builder returns when Call returned the response m and Builder then
\* dialled addr (lines 27-37): the error of Call; else the error of Dial; else
\* the stub b = Builder(client).
BuilderResult(m, eps, up, addr) ==
    IF m.err # NilErr THEN [NoResult EXCEPT !.err = m.err]
    ELSE IF ~DialOk(eps, up, addr)
         THEN [NoResult EXCEPT !.reply = m.addr, !.dialed = TRUE, !.err = DialErr]
    ELSE [NoResult EXCEPT !.reply = m.addr, !.dialed = TRUE, !.hasStub = TRUE,
                          !.stub = addr]

\* EnvironmentBuilderReturn that dials the endpoint made last, not reply.
EnvironmentBuilderReturnDialLatest(t) ==
    /\ cpc[t] = "call"
    /\ creq[t].method = "Builder"
    /\ wire[t].st = "resp"
    /\ LET up == plugin = "up"
           addr == Len(endpoints)
       IN
       /\ endpoints' = IF wire[t].err # NilErr THEN endpoints
                       ELSE Dial(endpoints, up, addr, creq[t].id)
       /\ cres' = [cres EXCEPT ![t] = BuilderResult(wire[t], endpoints, up, addr)]
    /\ cpc' = [cpc EXCEPT ![t] = "done"]
    /\ wire' = [wire EXCEPT ![t] = NoMsg]
    /\ UNCHANGED <<clientVars, plugin, xcalls, ncalls, creq>>

\* Lines 26-37: Call returns in Builder.  With an error Builder returns it.
\* Else rpc.Dial("tcp", reply); with an error Builder returns it, else it
\* returns b = Builder(client).
EnvironmentBuilderReturn(t) ==
    /\ cpc[t] = "call"
    /\ creq[t].method = "Builder"
    /\ wire[t].st = "resp"
    /\ LET up == plugin = "up"
           addr == wire[t].addr
       IN
       /\ endpoints' = IF wire[t].err # NilErr THEN endpoints
                       ELSE Dial(endpoints, up, addr, creq[t].id)
       /\ cres' = [cres EXCEPT ![t] = BuilderResult(wire[t], endpoints, up, addr)]
    /\ cpc' = [cpc EXCEPT ![t] = "done"]
    /\ wire' = [wire EXCEPT ![t] = NoMsg]
    /\ UNCHANGED <<clientVars, plugin, xcalls, ncalls, creq>>

\* Lines 42-43: Call returns in Cli: result and err are returned.
EnvironmentCliReturn(t) ==
    /\ cpc[t] = "call"
    /\ creq[t].method = "Cli"
    /\ wire[t].st = "resp"
    /\ cres' = [cres EXCEPT ![t] =
                    [NoResult EXCEPT !.result = wire[t].result, !.err = wire[t].err]]
    /\ cpc' = [cpc EXCEPT ![t] = "done"]
    /\ wire' = [wire EXCEPT ![t] = NoMsg]
    /\ UNCHANGED <<clientVars, plugin, endpoints, xcalls, ncalls, creq>>

\* Lines 48-52: Call returns in Ui and its error is not looked at: reply is
\* the empty string when the call failed.  Then client, _ := rpc.Dial("tcp",
\* reply): the error of Dial is dropped too, and &Ui{client} is returned,
\* around a nil client when Dial failed.
EnvironmentUiReturn(t) ==
    /\ cpc[t] = "call"
    /\ creq[t].method = "Ui"
    /\ wire[t].st = "resp"
    /\ LET up == plugin = "up"
           addr == wire[t].addr
       IN
       /\ endpoints' = Dial(endpoints, up, addr, creq[t].id)
       /\ cres' = [cres EXCEPT ![t] =
                        [NoResult EXCEPT !.reply = addr, !.dialed = TRUE,
                                         !.hasStub = TRUE,
                                         !.stub = IF DialOk(endpoints, up, addr)
                                                  THEN addr ELSE 0]]
    /\ cpc' = [cpc EXCEPT ![t] = "done"]
    /\ wire' = [wire EXCEPT ![t] = NoMsg]
    /\ UNCHANGED <<clientVars, plugin, xcalls, ncalls, creq>>

\* The steps of a caller of the root stub, and of the serving side.
StubStep(t) ==
    \/ EnvironmentBuilder(t)
    \/ EnvironmentCli(t)
    \/ EnvironmentUi(t)
    \/ EnvironmentBuilderReturn(t)
    \/ EnvironmentCliReturn(t)
    \/ EnvironmentUiReturn(t)

ServerStep(t) ==
    \/ EnvironmentServerBuilder(t)
    \/ EnvironmentServerCli(t)
    \/ EnvironmentServerUi(t)

\* The proxy: the host's threads call the root stub, the plugin serves the
\* calls and may die at any time.
NextRpc ==
    \/ \E t \in Callers : StubStep(t) \/ ServerStep(t) \/ ConnectionLost(t)
    \/ PluginDies

SpecRpc == InitRpc /\ [][NextRpc]_vars

(***************************************************************************)
(* Properties.                                                             *)
(***************************************************************************)
\* s holds a complete line.
HasLine(s) == IndexNl(s) > 0

\* s is one newline-terminated line holding an address.
WellFormedLine(s) ==
    /\ IndexNl(s) = Len(s)
    /\ Len(s) > 0
    /\ TrimSpace(s) # <<>>

RECURSIVE Flatten(_)
\* The bytes of a sequence of entries, in order.
Flatten(es) == IF es = <<>> THEN <<>> ELSE Head(es) \o Flatten(Tail(es))

IsDrainEntry(e) == e # ExitMsg

\* The entries logStderr forwarded to the log sink.
DrainEntries(c) == SelectSeq(log[c], IsDrainEntry)

Spawned(c) == proc[c] # "none"

\* C1: when the subprocess wrote one well-formed newline-terminated address
\* line and the deadline has not elapsed, a Start that has returned has
\* returned success with exactly that whole line, trimmed - however the bytes
\* of the line reached the stdout buffer.
C1_StartReturnsWholeLine ==
    \A c \in Clients :
        (startPc[c] = "returned" /\ WellFormedLine(outWritten[c]) /\ timer[c] # "fired")
            => (startErr[c] = "nil" /\ address[c] = TrimSpace(outWritten[c]))

\* C5, as stated: whenever Start returns and the subprocess has exited by
\* itself (the exit is recorded in c.exited) without a complete line on
\* stdout, Start returns the PrematureExit error and no address.
C5_ExitAlwaysPrematureExit ==
    [][\A c \in Clients :
        (/\ startPc[c] = "defer"
         /\ startPc'[c] = "returned"
         /\ exited[c]
         /\ proc[c] \in {"exit0", "exit1"}
         /\ ~HasLine(outWritten[c]))
            => (startErr'[c] = "exit" /\ address'[c] = <<>>)]_vars

\* C5, amended: when the subprocess has exited, with whatever exit code,
\* without a complete line on stdout, and the deadline has not elapsed, a
\* Start that has returned has returned the PrematureExit error and no
\* address.
C5_PrematureExit ==
    \A c \in Clients :
        (/\ startPc[c] = "returned"
         /\ proc[c] \in {"exit0", "exit1"}
         /\ ~HasLine(outWritten[c])
         /\ timer[c] # "fired")
            => (startErr[c] = "exit" /\ address[c] = <<>>)

\* Start has reported PrematureExit for a subprocess that wrote part of a line
\* and exited with code 0.
C5_Witness ==
    \E c \in Clients :
        /\ startPc[c] = "returned"
        /\ proc[c] = "exit0"
        /\ outWritten[c] # <<>>
        /\ ~HasLine(outWritten[c])
        /\ timer[c] # "fired"
        /\ startErr[c] = "exit"

\* C6: a Start that has returned although the subprocess wrote no complete
\* line and no exit was recorded has returned the StartupTimeout error; and
\* StartupTimeout is only ever reported after the timer of the deadline has
\* fired.
C6_StartupTimeout ==
    \A c \in Clients :
        /\ (/\ startPc[c] = "returned"
            /\ Spawned(c)
            /\ ~HasLine(outWritten[c])
            /\ ~exited[c])
                => (startErr[c] = "timeout" /\ address[c] = <<>>)
        /\ startErr[c] = "timeout" => timer[c] = "fired"

\* Start has returned StartupTimeout while the subprocess, which wrote only
\* part of a line, still runs.
C6_Witness ==
    \E c \in Clients :
        /\ startPc[c] = "returned"
        /\ startErr[c] = "timeout"
        /\ proc[c] = "running"
        /\ outWritten[c] # <<>>

\* C7: when Start has returned StartupTimeout or PrematureExit, a kill of the
\* subprocess has been issued.
C7_KillOnFailure ==
    \A c \in Clients :
        (startPc[c] = "returned" /\ startErr[c] \in {"timeout", "exit"})
            => killSig[c]

\* Start has returned an error and killed the subprocess, the host having
\* called no Kill.
C7_Witness ==
    \E c \in Clients :
        /\ startPc[c] = "returned"
        /\ startErr[c] = "timeout"
        /\ killSig[c]
        /\ kpc[0] = "idle"

\* C8: a Kill on a handle whose subprocess was never started returns from
\* its first step (it never reaches the signal nor the wait), and as long as
\* the subprocess is not started no signal was sent and exited and
\* doneLogging are false.
C8_KillNeverStarted ==
    /\ [](\A k \in Killers :
            kpc[k] \in {"signal", "poll"} => Spawned(ktarget[k]))
    /\ [](\A c \in Clients :
            ~Spawned(c) => (~killSig[c] /\ ~exited[c] /\ ~doneLogging[c]))
    /\ [][\A k \in Killers :
            (kpc[k] = "check" /\ kpc'[k] # "check" /\ ~Spawned(ktarget[k]))
                => (/\ kpc'[k] = "noProcess"
                    /\ UNCHANGED <<killSig, exited, doneLogging>>)]_vars

\* A Kill has returned on a handle that was never started.
C8_Witness ==
    \E k \in Killers :
        /\ kpc[k] = "noProcess"
        /\ ~Spawned(ktarget[k])
        /\ startPc[ktarget[k]] = "idle"

\* C2: when CleanupClients has returned, each handle of the registry was
\* the target of the Kill of exactly one of its goroutines, and each handle
\* has exited and has finished logging.
C2_CleanupKillsAll ==
    cleanupPc = "returned" =>
        \A i \in 1..Len(managedClients) :
            LET c == managedClients[i] IN
            /\ Cardinality({k \in Killers \ {0} : ktarget[k] = c}) = 1
            /\ exited[c]
            /\ doneLogging[c]

\* C3: when a Kill that found a process has returned, exited and doneLogging
\* are true of its handle; no step taken while the Kill has returned adds an
\* entry to the handle's log, and none does so later either, when the host
\* has gone on to other calls: the log of a handle whose logging is done never
\* changes.
C3_KillReturnsAfterLogging ==
    /\ [](\A k \in Killers :
            kpc[k] = "returned" => (exited[ktarget[k]] /\ doneLogging[ktarget[k]]))
    /\ [][\A k \in Killers :
            kpc[k] = "returned" => log'[ktarget[k]] = log[ktarget[k]]]_vars
    /\ [][\A c \in Clients : doneLogging[c] => log'[c] = log[c]]_vars

\* The host's Kill has returned on a killed subprocess whose stderr output
\* was logged.
C3_Witness ==
    /\ kpc[0] = "returned"
    /\ proc[ktarget[0]] = "killed"
    /\ DrainEntries(ktarget[0]) # <<>>

\* C4: when doneLogging is true, the entries logStderr forwarded hold, in
\* order, every byte the subprocess wrote on stderr.
C4_NoStderrLost ==
    \A c \in Clients :
        doneLogging[c] => Flatten(DrainEntries(c)) = errWritten[c]

C10_FlagsOrdered ==
    /\ [](\A c \in Clients :
            doneLogging[c] => (/\ exited[c]
                               /\ stderrBuf[c].unread = <<>>
                               /\ drainPc[c] = "done"))
    /\ [][\A c \in Clients :
            /\ exited[c] => exited'[c]
            /\ doneLogging[c] => doneLogging'[c]]_vars

\* Logging is done for a subprocess that wrote on stderr.
C10_Witness ==
    \E c \in Clients :
        /\ doneLogging[c]
        /\ errWritten[c] # <<>>
        /\ DrainEntries(c) # <<>>

\* The invocations of the served environment made for the call of caller t.
XCallsOf(t) == {i \in 1..Len(xcalls) : xcalls[i].id = creq[t].id}

\* The error the caller got is the error e the environment returned: both
\* nil, or both with the same message.
SameError(got, e) ==
    /\ (got = NilErr) <=> (e = NilErr)
    /\ got.msg = e.msg

\* The successful invocations of Builder and Ui on the serving side.
Exposed == {i \in 1..Len(xcalls) :
                xcalls[i].method \in {"Builder", "Ui"} /\ xcalls[i].err = NilErr}

\* C11: when a call of the stub's Cli(args) has returned without an error of
\* the connection, the served environment's Cli was called exactly once for
\* it, with the same argument sequence, and the caller got exactly the integer
\* result and the error that this call of X.Cli returned.
C11_CliRoundTrip ==
    \A t \in Callers :
        (cpc[t] = "done" /\ creq[t].method = "Cli" /\ cres[t].err.kind # "conn")
            => /\ Cardinality(XCallsOf(t)) = 1
               /\ \A i \in XCallsOf(t) :
                    /\ xcalls[i].method = "Cli"
                    /\ xcalls[i].args = creq[t].args
                    /\ cres[t].result = xcalls[i].result
                    /\ SameError(cres[t].err, xcalls[i].err)

\* C12: a call of Builder that returned without error has returned a stub, and
\* a stub with a connection that Builder or Ui has returned is connected to
\* the endpoint that serves the object which the environment's Builder (resp.
\* Ui) returned in the one invocation made for this call; the endpoint has
\* this one connection and the call connected to no other endpoint.
C12_NestedStubReachesObject ==
    \A t \in Callers :
        cpc[t] = "done" =>
            /\ (creq[t].method = "Builder" /\ cres[t].err = NilErr)
                    => (cres[t].hasStub /\ cres[t].stub # 0)
            /\ (cres[t].hasStub /\ cres[t].stub # 0)
                    => /\ cres[t].stub \in 2..Len(endpoints)
                       /\ Cardinality(XCallsOf(t)) = 1
                       /\ \A i \in XCallsOf(t) :
                            /\ xcalls[i].method = creq[t].method
                            /\ xcalls[i].err = NilErr
                            /\ endpoints[cres[t].stub].obj = xcalls[i].obj
                       /\ endpoints[cres[t].stub].conns = 1
                       /\ \A a \in 1..Len(endpoints) :
                            endpoints[a].cid = creq[t].id <=> a = cres[t].stub

\* Two overlapping or successive calls, one of Builder and one of Ui, have
\* each returned a connected stub.
C12_Witness ==
    \E t1, t2 \in Callers :
        /\ cpc[t1] = "done" /\ creq[t1].method = "Builder" /\ cres[t1].stub # 0
        /\ cpc[t2] = "done" /\ creq[t2].method = "Ui" /\ cres[t2].stub # 0

\* C13: an invocation of the environment's Builder that returned an error
\* created no endpoint (the endpoints are the root and one per successful
\* invocation of Builder or Ui), and the call of the stub's Builder it was
\* made for has returned an error with the same message and no stub, and has
\* not called Dial.
C13_BuilderErrorPropagated ==
    /\ Len(endpoints) = 1 + Cardinality(Exposed)
    /\ \A i \in 1..Len(xcalls) :
        (xcalls[i].method = "Builder" /\ xcalls[i].err # NilErr)
            => /\ xcalls[i].addr = 0
               /\ \A t \in Callers :
                    (cpc[t] = "done" /\ creq[t].id = xcalls[i].id)
                        => /\ cres[t].err = ServerError(xcalls[i].err)
                           /\ ~cres[t].hasStub
                           /\ cres[t].stub = 0
                           /\ ~cres[t].dialed
                           /\ \A a \in 1..Len(endpoints) :
                                endpoints[a].cid # creq[t].id

\* A call of the stub's Builder has returned the error of the environment's
\* Builder while the plugin lives.
C13_Witness ==
    \E t \in Callers :
        /\ cpc[t] = "done"
        /\ creq[t].method = "Builder"
        /\ cres[t].err = ServerError(AppErr)
        /\ plugin = "up"
        /\ \E i \in XCallsOf(t) : xcalls[i].err = AppErr

\* C14: a call on the root stub that began after the plugin process died has
\* returned an error of the connection and no stub.
C14_ConnectionErrorAfterDeath ==
    \A t \in Callers :
        (cpc[t] = "done" /\ creq[t].afterDeath)
            => (cres[t].err.kind = "conn" /\ ~cres[t].hasStub)

\* C20: the endpoints are the root endpoint and one for each successful
\* invocation of Builder or Ui on the serving side, each advertised by one
\* invocation only and serving its object; and no advertised address was
\* dialled more than once, no endpoint accepted more than one connection.
C20_OneEndpointPerInvocation ==
    /\ Len(endpoints) = 1 + Cardinality(Exposed)
    /\ \A i \in Exposed :
        /\ xcalls[i].addr \in 2..Len(endpoints)
        /\ endpoints[xcalls[i].addr].obj = xcalls[i].obj
        /\ \A j \in Exposed : xcalls[j].addr = xcalls[i].addr => j = i
    /\ \A a \in 1..Len(endpoints) :
        /\ endpoints[a].dials <= 1
        /\ endpoints[a].conns <= 1

\* Two invocations of Ui have each exposed an endpoint and each endpoint was
\* dialled.
C20_Witness ==
    \E i, j \in Exposed :
        /\ i # j
        /\ xcalls[i].method = "Ui" /\ xcalls[j].method = "Ui"
        /\ endpoints[xcalls[i].addr].dials = 1
        /\ endpoints[xcalls[j].addr].dials = 1

\* C15: a second or later call of Start spawns no process and starts no
\* watcher and no drain task, and leaves exited and doneLogging as they are;
\* and a process, once created, is never created again.
C15_StartAgainNoEffect ==
    /\ [][\A c \in Clients :
            StartAgain(c) => /\ proc'[c] = proc[c]
                             /\ watcherPc'[c] = watcherPc[c]
                             /\ drainPc'[c] = drainPc[c]
                             /\ exited'[c] = exited[c]
                             /\ doneLogging'[c] = doneLogging[c]]_vars
    /\ [][\A c \in Clients :
            Spawned(c) => ~(proc[c] # "running" /\ proc'[c] = "running")]_vars

\* The bytes a ReadBytes of Start in progress saw when it began.
SeenByRead(c) == SubSeq(stdoutBuf[c].unread, 1, startScan[c].len)

\* C16: a Start that has returned the spawn error returned in its first step;
\* then, and from then on, there is no process, no watcher, no drain task and
\* no timer, exited and doneLogging are false and no address was returned; and
\* a Kill on the handle returns from its first step.
C16_SpawnError ==
    /\ [](\A c \in Clients :
            startErr[c] = "spawn"
                => /\ startPc[c] = "returned"
                   /\ ~Spawned(c)
                   /\ watcherPc[c] = "none"
                   /\ drainPc[c] = "none"
                   /\ timer[c] = "off"
                   /\ ~exited[c]
                   /\ ~doneLogging[c]
                   /\ address[c] = <<>>)
    /\ [][\A c \in Clients :
            /\ startErr'[c] = "spawn" => (startErr[c] = "spawn" \/ startPc[c] = "idle")
            /\ startErr[c] = "spawn" => startErr'[c] = "spawn"]_vars
    /\ [][\A k \in Killers :
            (/\ kpc[k] = "check"
             /\ kpc'[k] # "check"
             /\ startErr[ktarget[k]] = "spawn") => kpc'[k] = "noProcess"]_vars

\* A Kill has returned on a handle whose Start returned the spawn error.
C16_Witness ==
    \E k \in Killers :
        /\ kpc[k] = "noProcess"
        /\ startPc[ktarget[k]] = "returned"
        /\ startErr[ktarget[k]] = "spawn"

\* C17: in a poll of Start, a complete line that the read finds in the stdout
\* buffer makes Start succeed with it, trimmed, whatever err was set to by the
\* deadline or the exit earlier in the poll; an elapsed deadline sets err to
\* StartupTimeout, the exit check leaves that error alone although exited is
\* true, and a read that finds no line returns it.
C17_PollPriority ==
    /\ [][\A c \in Clients :
            (startPc[c] = "line" /\ startPc'[c] # "line" /\ HasLine(SeenByRead(c)))
                => /\ startPc'[c] = "defer"
                   /\ startErr'[c] = "nil"
                   /\ address'[c] = TrimSpace(ReadLine(SeenByRead(c)).line)]_vars
    /\ [][\A c \in Clients :
            (startPc[c] = "select" /\ startPc'[c] # "select" /\ timer[c] = "fired")
                => startErr'[c] = "timeout"]_vars
    /\ [][\A c \in Clients :
            (startPc[c] = "exited" /\ startPc'[c] # "exited" /\ startErr[c] = "timeout")
                => startErr'[c] = "timeout"]_vars
    /\ [][\A c \in Clients :
            (/\ startPc[c] = "line" /\ startPc'[c] # "line"
             /\ startErr[c] = "timeout"
             /\ ~HasLine(stdoutBuf[c].unread))
                => /\ startPc'[c] = "defer"
                   /\ startErr'[c] = "timeout"
                   /\ address'[c] = <<>>]_vars
    /\ [][\A c \in Clients :
            (startPc[c] = "defer" /\ startPc'[c] # "defer")
                => (startErr'[c] = startErr[c] /\ address'[c] = address[c])]_vars

\* In one poll the deadline was found elapsed, the exit check has run with
\* exited true, and the error is still StartupTimeout.
C17_Witness ==
    \E c \in Clients :
        /\ startPc[c] = "read"
        /\ startErr[c] = "timeout"
        /\ exited[c]
        /\ proc[c] \in {"exit0", "exit1"}

\* C18: a call of Start that has begun eventually returns, whatever the
\* subprocess does, when the timer of the deadline fires; and when it has
\* returned it has returned an error and no address, or no error and the
\* trimmed line it read.
C18_StartTerminates ==
    /\ \A c \in Clients : (startPc[c] # "idle") ~> (startPc[c] = "returned")
    /\ [](\A c \in Clients :
            startPc[c] = "returned"
                => /\ startErr[c] # "nil" => address[c] = <<>>
                   /\ startErr[c] = "nil" => HasLine(outWritten[c]))

\* Start has returned StartupTimeout for a subprocess that wrote nothing and
\* did not exit, and the subprocess was killed.
C18_Witness ==
    \E c \in Clients :
        /\ startPc[c] = "returned"
        /\ startErr[c] = "timeout"
        /\ proc[c] = "killed"
        /\ outWritten[c] = <<>>

\* C19: every entry logStderr has forwarded is one complete line of the
\* subprocess's stderr output, newline-terminated, and the entries, in order,
\* are the successive lines of what the subprocess wrote.
C19_WholeLinesOnly ==
    \A c \in Clients :
        /\ \A i \in 1..Len(DrainEntries(c)) :
            LET e == DrainEntries(c)[i] IN
            /\ e # <<>>
            /\ IndexNl(e) = Len(e)
        /\ \E n \in 0..Len(errWritten[c]) :
            Flatten(DrainEntries(c)) = SubSeq(errWritten[c], 1, n)

=============================================================================
